---- MODULE Spec2Model ----
(***************************************************************************)
(* SharQ: a multi-tenant rate-limited job queue on a scripted key-value    *)
(* store.  The orchestrator (sharq/queue.py) validates the arguments of a  *)
(* call, stamps the clock, builds the keys and invokes one atomic script.  *)
(* The scripts (scripts/lua/*.lua) and the helpers of sharq.utils are      *)
(* modelled from their description in the specification, sections 4.1-4.5. *)
(*                                                                         *)
(* Times are epoch milliseconds.  The per-minute rate counters, which no   *)
(* mutating operation reads, are not part of the state.                    *)
(***************************************************************************)
EXTENDS Integers, Sequences, FiniteSets, TLC

(* ------------------------------ bounds --------------------------------- *)
\* the clock advances MaxTicks times
MaxTicks == 2
\* at most MaxEnqueues accepted enqueue calls in a behaviour
MaxEnqueues == 2

(* ------------------------------ inputs --------------------------------- *)
KeyPrefix == "sharq"
QueueTypes == {"sms", "email"}
QueueIds == {"q1", "q2"}
JobIds == {"j1", "j2"}
\* Python's None, for the optional arguments of metrics
None == "<None>"
InvalidIdentifiers == {""}
\* the clock's step
TickMs == 1000
IntervalFloor == 1000
IntervalCeiling == 2147483647
Intervals == {1000, 2000}
InvalidIntervals == {50}
\* [sharq] job_expire_interval of the configuration
JobExpireInterval == 2000
Unserializable == <<"<object>">>

VARIABLES
    jobs,          \* P:T:Q        job list of each (T, Q), head first
    payload,       \* P:payload    hash "T:Q:J" -> wrapped serialized payload
    interval,      \* P:interval   hash "T:Q" -> interval in ms
    ready,         \* P:T          sorted set of queue ids, by next dequeue time
    active,        \* P:T:active   sorted set of "Q:J" tokens, by expiry time
    readyTypes,    \* P:ready:queue_type
    activeTypes,   \* P:active:queue_type
    now,           \* the clock, epoch ms
    response,      \* what the last client call returned (or raised)
    rqPc,          \* position of the requeue driver
    rqTimestamp,   \* the requeue driver's timestamp
    rqTypes,       \* the types the requeue driver has still to visit
    supplied,      \* history: payload given to the enqueue of each live job
    enqueued,      \* history: number of accepted enqueue calls
    recording,     \* which of the histories below are recorded
    call,          \* history: the last call, <<operation, arguments...>>
    lastDequeue,   \* history: <<time, interval in force>> of the last
                   \* successful dequeue of (T, Q)
    deliveries,    \* history: times each live job was returned by dequeue
    finished,      \* history: the jobs whose finish succeeded
    inFlight       \* history: dequeue time of each job dequeued and not since
                   \* finished or requeued

storeVars == <<jobs, payload, interval, ready, active, readyTypes, activeTypes>>
rqVars == <<rqPc, rqTimestamp, rqTypes>>
histVars == <<lastDequeue, deliveries, finished, inFlight>>
vars == <<jobs, payload, interval, ready, active, readyTypes, activeTypes,
          now, response, rqPc, rqTimestamp, rqTypes, supplied, enqueued,
          recording, call, lastDequeue, deliveries, finished, inFlight>>

(* --------------------------- the store --------------------------------- *)
Store ==
    [jobs |-> jobs, payload |-> payload, interval |-> interval,
     ready |-> ready, active |-> active,
     readyTypes |-> readyTypes, activeTypes |-> activeTypes]

StoreNext ==
    [jobs |-> jobs', payload |-> payload', interval |-> interval',
     ready |-> ready', active |-> active',
     readyTypes |-> readyTypes', activeTypes |-> activeTypes']

SetStore(s) ==
    /\ jobs' = s.jobs
    /\ payload' = s.payload
    /\ interval' = s.interval
    /\ ready' = s.ready
    /\ active' = s.active
    /\ readyTypes' = s.readyTypes
    /\ activeTypes' = s.activeTypes

\* hash / sorted-set primitives: a map is a function on the present members
Put(f, k, v) == [x \in (DOMAIN f) \cup {k} |-> IF x = k THEN v ELSE f[x]]
Del(f, k) == [x \in (DOMAIN f) \ {k} |-> f[x]]
EmptyMap == [x \in {} |-> 0]

\* the store orders members of equal score lexicographically
Rank(seq, x) == CHOOSE i \in 1..Len(seq) : seq[i] = x
QueueIdOrder == <<"q1", "q2">>
JobIdOrder == <<"j1", "j2">>
TokenRank(tok) == Rank(QueueIdOrder, tok[1]) * 10 + Rank(JobIdOrder, tok[2])

(* ------------------- the atomic scripts (spec 4.5) --------------------- *)
\* an enqueue script that pushes the job at the head of the list
LuaEnqueueAtHead(s, T, ts, Q, J, p, n) ==
    LET iv == IF <<T, Q>> \in DOMAIN s.interval
               THEN s.interval
               ELSE Put(s.interval, <<T, Q>>, n)
        rd == IF Q \in DOMAIN s.ready[T]
               THEN s.ready
               ELSE [s.ready EXCEPT ![T] = Put(@, Q, ts)]
    IN  [s EXCEPT !.interval = iv,
                  !.jobs = [s.jobs EXCEPT ![T][Q] = <<J>> \o @],
                  !.payload = Put(s.payload, <<T, Q, J>>, p),
                  !.ready = rd,
                  !.readyTypes = s.readyTypes \cup {T}]

\* enqueue.lua: KEYS = prefix, T; ARGV = now, Q, J, payload, interval
LuaEnqueue(s, T, ts, Q, J, p, n) ==
    LET iv == IF <<T, Q>> \in DOMAIN s.interval
               THEN s.interval
               ELSE Put(s.interval, <<T, Q>>, n)
        rd == IF Q \in DOMAIN s.ready[T]
               THEN s.ready
               ELSE [s.ready EXCEPT ![T] = Put(@, Q, ts)]
    IN  [s EXCEPT !.interval = iv,
                  !.jobs = [s.jobs EXCEPT ![T][Q] = Append(@, J)],
                  !.payload = Put(s.payload, <<T, Q, J>>, p),
                  !.ready = rd,
                  !.readyTypes = s.readyTypes \cup {T}]

\* the member of lowest score among those of score <= ts, ties by name
Eligible(s, T, ts) == {q \in DOMAIN s.ready[T] : s.ready[T][q] <= ts}

LowestScored(s, T, ts) ==
    CHOOSE q \in Eligible(s, T, ts) :
        \A r \in Eligible(s, T, ts) :
            \/ s.ready[T][q] < s.ready[T][r]
            \/ /\ s.ready[T][q] = s.ready[T][r]
               /\ Rank(QueueIdOrder, q) <= Rank(QueueIdOrder, r)

\* dequeue.lua: KEYS = prefix, T; ARGV = now, expire_ms
\* replies <<Q, J, payload>>, or the empty list when no work is ready
LuaDequeue(s, T, ts, expire) ==
    IF Eligible(s, T, ts) = {}
    THEN [store |-> s, reply |-> <<>>]
    ELSE
      LET Q == LowestScored(s, T, ts)
          J == Head(s.jobs[T][Q])
          rest == Tail(s.jobs[T][Q])
          p == s.payload[<<T, Q, J>>]
          rd == IF rest = <<>>
                 THEN [s.ready EXCEPT ![T] = Del(@, Q)]
                 ELSE [s.ready EXCEPT ![T] = Put(@, Q, ts + s.interval[<<T, Q>>])]
          rt == IF DOMAIN rd[T] = {}
                 THEN s.readyTypes \ {T}
                 ELSE s.readyTypes
      IN  [store |-> [s EXCEPT !.jobs = [s.jobs EXCEPT ![T][Q] = rest],
                               !.ready = rd,
                               !.readyTypes = rt,
                               !.active = [s.active EXCEPT
                                              ![T] = Put(@, <<Q, J>>, ts + expire)],
                               !.activeTypes = s.activeTypes \cup {T}],
           reply |-> <<Q, J, p>>]

\* a finish script that leaves the payload entry in place
LuaFinishKeepsPayload(s, T, Q, J) ==
    IF <<Q, J>> \notin DOMAIN s.active[T]
    THEN [store |-> s, reply |-> 0]
    ELSE
      LET ac == [s.active EXCEPT ![T] = Del(@, <<Q, J>>)]
      IN  [store |-> [s EXCEPT !.active = ac,
                               !.activeTypes = IF DOMAIN ac[T] = {}
                                               THEN s.activeTypes \ {T}
                                               ELSE s.activeTypes],
           reply |-> 1]

\* finish.lua: KEYS = prefix, T; ARGV = Q, J.  Replies 1, or 0 when "Q:J"
\* is not in the active set
LuaFinish(s, T, Q, J) ==
    IF <<Q, J>> \notin DOMAIN s.active[T]
    THEN [store |-> s, reply |-> 0]
    ELSE
      LET ac == [s.active EXCEPT ![T] = Del(@, <<Q, J>>)]
      IN  [store |-> [s EXCEPT !.active = ac,
                               !.payload = Del(s.payload, <<T, Q, J>>),
                               !.activeTypes = IF DOMAIN ac[T] = {}
                                               THEN s.activeTypes \ {T}
                                               ELSE s.activeTypes],
           reply |-> 1]

\* '%s:%s' % (queue_id, queue_type)
IntervalQueueKeySwapped(T, Q) == <<Q, T>>

\* the keys the orchestrator and the scripts name
JobListKey(T, Q) == <<KeyPrefix, T, Q>>
IntervalHmapKey == <<KeyPrefix, "interval">>
IntervalQueueKey(T, Q) == <<T, Q>>

\* a job list exists in the store exactly when it is non-empty
ListExists(s, key) ==
    \E T \in QueueTypes, Q \in QueueIds :
        key = JobListKey(T, Q) /\ s.jobs[T][Q] # <<>>

\* interval.lua: KEYS = the interval hash, the queue's key; ARGV = interval
LuaInterval(s, hmapKey, queueKey, n) ==
    IF ~ListExists(s, queueKey) /\ queueKey \notin DOMAIN s.interval
    THEN [store |-> s, reply |-> 0]
    ELSE [store |-> [s EXCEPT !.interval = Put(s.interval, queueKey, n)],
          reply |-> 1]

\* the expired members of the active set of T
Expired(s, T, ts) == {tok \in DOMAIN s.active[T] : s.active[T][tok] <= ts}

FirstExpired(s, T, ts) ==
    CHOOSE tok \in Expired(s, T, ts) :
        \A o \in Expired(s, T, ts) :
            \/ s.active[T][tok] < s.active[T][o]
            \/ /\ s.active[T][tok] = s.active[T][o]
               /\ TokenRank(tok) <= TokenRank(o)

\* a requeue that puts the job back and leaves its queue out of the ready set
RequeueOneNotReady(s, T, ts, tok) ==
    [s EXCEPT !.active = [s.active EXCEPT ![T] = Del(@, tok)],
              !.jobs = [s.jobs EXCEPT ![T][tok[1]] = <<tok[2]>> \o @]]

\* a requeue that puts the job back at the tail of its list
RequeueOneAtTail(s, T, ts, tok) ==
    [s EXCEPT !.active = [s.active EXCEPT ![T] = Del(@, tok)],
              !.jobs = [s.jobs EXCEPT ![T][tok[1]] = Append(@, tok[2])],
              !.ready = IF tok[1] \in DOMAIN s.ready[T]
                        THEN s.ready
                        ELSE [s.ready EXCEPT ![T] = Put(@, tok[1], ts)]]

\* one expired member: out of the active set, to the head of its job list,
\* its queue into the ready set when it is not there
RequeueOne(s, T, ts, tok) ==
    [s EXCEPT !.active = [s.active EXCEPT ![T] = Del(@, tok)],
              !.jobs = [s.jobs EXCEPT ![T][tok[1]] = <<tok[2]>> \o @],
              !.ready = IF tok[1] \in DOMAIN s.ready[T]
                        THEN s.ready
                        ELSE [s.ready EXCEPT ![T] = Put(@, tok[1], ts)]]

RECURSIVE RequeueAll(_, _, _)
RequeueAll(s, T, ts) ==
    IF Expired(s, T, ts) = {}
    THEN s
    ELSE RequeueAll(RequeueOne(s, T, ts, FirstExpired(s, T, ts)), T, ts)

\* a requeue script that leaves the two registries of types as they were
LuaRequeueKeepsTypes(s, T, ts) == RequeueAll(s, T, ts)

\* requeue.lua: KEYS = prefix, T; ARGV = now
LuaRequeue(s, T, ts) ==
    LET r == RequeueAll(s, T, ts)
    IN  [r EXCEPT !.readyTypes = IF DOMAIN r.ready[T] # {}
                                 THEN r.readyTypes \cup {T}
                                 ELSE r.readyTypes \ {T},
                  !.activeTypes = IF DOMAIN r.active[T] # {}
                                  THEN r.activeTypes \cup {T}
                                  ELSE r.activeTypes \ {T}]

(* -------------------- validator and codec (spec 4.1, 4.2) -------------- *)
IsValidIdentifier(x) == x \notin InvalidIdentifiers /\ x # None
IsValidInterval(n) == n \in Int /\ n >= IntervalFloor /\ n <= IntervalCeiling

\* the codec: a header byte before the value; serializing fails with
\* TypeError on a value it cannot encode
CanSerialize(x) == x # Unserializable
SerializePayload(x) == <<"#">> \o x
DeserializePayload(b) == Tail(b)

\* payload[1:], the closing quote left on
UnwrapLeading(w) == SubSeq(w, 2, Len(w))

\* '"%s"' % serialized_payload, and payload[1:-1]
Wrap(b) == <<"\"">> \o b \o <<"\"">>
Unwrap(w) == SubSeq(w, 2, Len(w) - 1)

(* ------------------------- the orchestrator ---------------------------- *)
\* the histories change only while they are recorded
Record(c) == call' = IF "call" \in recording THEN c ELSE call
Keep(h, old, new) == IF h \in recording THEN new ELSE old

BadArgument(c) ==
    /\ response' = [op |-> c[1], status |-> "bad-argument"]
    /\ Record(c)
    /\ UNCHANGED <<storeVars, now, rqVars, supplied, enqueued, recording, histVars>>

\* an enqueue that does not validate the interval
EnqueueUncheckedInterval(p, n, J, Q, T) ==
    IF \/ ~IsValidIdentifier(J)
       \/ ~IsValidIdentifier(Q)
       \/ ~IsValidIdentifier(T)
       \/ ~CanSerialize(p)
    THEN BadArgument(<<"enqueue", p, n, J, Q, T>>)
    ELSE /\ enqueued < MaxEnqueues
         /\ SetStore(LuaEnqueue(Store, T, now, Q, J, Wrap(SerializePayload(p)), n))
         /\ response' = [op |-> "enqueue", status |-> "queued"]
         /\ Record(<<"enqueue", p, n, J, Q, T>>)
         /\ supplied' = Put(supplied, <<T, Q, J>>, p)
         /\ enqueued' = enqueued + 1
         /\ deliveries' = Keep("deliveries", deliveries, Put(deliveries, <<T, Q, J>>, 0))
         /\ finished' = finished \ {<<T, Q, J>>}
         /\ UNCHANGED <<now, rqVars, recording, lastDequeue, inFlight>>

Enqueue(p, n, J, Q, T) ==
    IF \/ ~IsValidInterval(n)
       \/ ~IsValidIdentifier(J)
       \/ ~IsValidIdentifier(Q)
       \/ ~IsValidIdentifier(T)
       \/ ~CanSerialize(p)
    THEN BadArgument(<<"enqueue", p, n, J, Q, T>>)
    ELSE /\ enqueued < MaxEnqueues
         /\ SetStore(LuaEnqueue(Store, T, now, Q, J, Wrap(SerializePayload(p)), n))
         /\ response' = [op |-> "enqueue", status |-> "queued"]
         /\ Record(<<"enqueue", p, n, J, Q, T>>)
         /\ supplied' = Put(supplied, <<T, Q, J>>, p)
         /\ enqueued' = enqueued + 1
         /\ deliveries' = Keep("deliveries", deliveries, Put(deliveries, <<T, Q, J>>, 0))
         /\ finished' = finished \ {<<T, Q, J>>}
         /\ UNCHANGED <<now, rqVars, recording, lastDequeue, inFlight>>

\* the length of the reply not tested: unpacking a reply that is not a
\* triple raises ValueError
DequeueResponseUntested(reply) ==
    IF Len(reply) # 3
    THEN [op |-> "dequeue", status |-> "error"]
    ELSE [op |-> "dequeue", status |-> "success",
          queue_id |-> reply[1], job_id |-> reply[2],
          payload |-> DeserializePayload(Unwrap(reply[3]))]

\* the reply unpacked as job_id, queue_id, payload
DequeueResponseSwapped(reply) ==
    IF Len(reply) < 3
    THEN [op |-> "dequeue", status |-> "failure"]
    ELSE [op |-> "dequeue", status |-> "success",
          queue_id |-> reply[2], job_id |-> reply[1],
          payload |-> DeserializePayload(Unwrap(reply[3]))]

\* the reply of the dequeue script, shaped into the response
DequeueResponse(reply) ==
    IF Len(reply) < 3
    THEN [op |-> "dequeue", status |-> "failure"]
    ELSE [op |-> "dequeue", status |-> "success",
          queue_id |-> reply[1], job_id |-> reply[2],
          payload |-> DeserializePayload(Unwrap(reply[3]))]

\* a dequeue that hands the script the epoch and not the clock
DequeueAtEpoch(T) ==
    IF ~IsValidIdentifier(T)
    THEN BadArgument(<<"dequeue", T>>)
    ELSE LET r == LuaDequeue(Store, T, 0, JobExpireInterval)
             key == <<T, r.reply[1], r.reply[2]>>
         IN  /\ SetStore(r.store)
             /\ response' = DequeueResponse(r.reply)
             /\ Record(<<"dequeue", T>>)
             /\ lastDequeue' = IF Len(r.reply) = 3
                               THEN Keep("lastDequeue", lastDequeue,
                                         Put(lastDequeue, <<T, r.reply[1]>>,
                                             <<now, interval[<<T, r.reply[1]>>]>>))
                               ELSE lastDequeue
             /\ deliveries' = IF Len(r.reply) = 3 /\ key \in DOMAIN deliveries
                              THEN Put(deliveries, key, deliveries[key] + 1)
                              ELSE deliveries
             /\ inFlight' = IF Len(r.reply) = 3
                            THEN Keep("inFlight", inFlight, Put(inFlight, key, now))
                            ELSE inFlight
             /\ UNCHANGED <<now, rqVars, supplied, enqueued, recording, finished>>

\* a dequeue that hands the script no visibility timeout
DequeueNoExpire(T) ==
    IF ~IsValidIdentifier(T)
    THEN BadArgument(<<"dequeue", T>>)
    ELSE LET r == LuaDequeue(Store, T, now, 0)
             key == <<T, r.reply[1], r.reply[2]>>
         IN  /\ SetStore(r.store)
             /\ response' = DequeueResponse(r.reply)
             /\ Record(<<"dequeue", T>>)
             /\ lastDequeue' = IF Len(r.reply) = 3
                               THEN Keep("lastDequeue", lastDequeue,
                                         Put(lastDequeue, <<T, r.reply[1]>>,
                                             <<now, interval[<<T, r.reply[1]>>]>>))
                               ELSE lastDequeue
             /\ deliveries' = IF Len(r.reply) = 3 /\ key \in DOMAIN deliveries
                              THEN Put(deliveries, key, deliveries[key] + 1)
                              ELSE deliveries
             /\ inFlight' = IF Len(r.reply) = 3
                            THEN Keep("inFlight", inFlight, Put(inFlight, key, now))
                            ELSE inFlight
             /\ UNCHANGED <<now, rqVars, supplied, enqueued, recording, finished>>

Dequeue(T) ==
    IF ~IsValidIdentifier(T)
    THEN BadArgument(<<"dequeue", T>>)
    ELSE LET r == LuaDequeue(Store, T, now, JobExpireInterval)
             key == <<T, r.reply[1], r.reply[2]>>
         IN  /\ SetStore(r.store)
             /\ response' = DequeueResponse(r.reply)
             /\ Record(<<"dequeue", T>>)
             /\ lastDequeue' = IF Len(r.reply) = 3
                               THEN Keep("lastDequeue", lastDequeue,
                                         Put(lastDequeue, <<T, r.reply[1]>>,
                                             <<now, interval[<<T, r.reply[1]>>]>>))
                               ELSE lastDequeue
             /\ deliveries' = IF Len(r.reply) = 3 /\ key \in DOMAIN deliveries
                              THEN Put(deliveries, key, deliveries[key] + 1)
                              ELSE deliveries
             /\ inFlight' = IF Len(r.reply) = 3
                            THEN Keep("inFlight", inFlight, Put(inFlight, key, now))
                            ELSE inFlight
             /\ UNCHANGED <<now, rqVars, supplied, enqueued, recording, finished>>

\* the two branches of the test of the script's reply, exchanged
FinishResponseInverted(reply) ==
    IF reply = 0
    THEN [op |-> "finish", status |-> "success"]
    ELSE [op |-> "finish", status |-> "failure"]

\* the script's reply not looked at
FinishResponseAlways(reply) == [op |-> "finish", status |-> "success"]

FinishResponse(reply) ==
    IF reply = 0
    THEN [op |-> "finish", status |-> "failure"]
    ELSE [op |-> "finish", status |-> "success"]

Finish(J, Q, T) ==
    IF \/ ~IsValidIdentifier(J)
       \/ ~IsValidIdentifier(Q)
       \/ ~IsValidIdentifier(T)
    THEN BadArgument(<<"finish", J, Q, T>>)
    ELSE LET r == LuaFinish(Store, T, Q, J)
         IN  /\ SetStore(r.store)
             /\ response' = FinishResponse(r.reply)
             /\ Record(<<"finish", J, Q, T>>)
             /\ supplied' = IF r.reply = 0
                            THEN supplied
                            ELSE Del(supplied, <<T, Q, J>>)
             /\ deliveries' = IF r.reply = 0
                              THEN deliveries
                              ELSE Del(deliveries, <<T, Q, J>>)
             /\ finished' = IF response'.status = "success"
                            THEN Keep("finished", finished, finished \cup {<<T, Q, J>>})
                            ELSE finished
             /\ inFlight' = IF response'.status = "success"
                            THEN Del(inFlight, <<T, Q, J>>)
                            ELSE inFlight
             /\ UNCHANGED <<now, rqVars, enqueued, recording, lastDequeue>>

IntervalResponse(reply) ==
    IF reply = 0
    THEN [op |-> "interval", status |-> "failure"]
    ELSE [op |-> "interval", status |-> "success"]

Interval(n, Q, T) ==
    IF \/ ~IsValidInterval(n)
       \/ ~IsValidIdentifier(Q)
       \/ ~IsValidIdentifier(T)
    THEN BadArgument(<<"interval", n, Q, T>>)
    ELSE LET r == LuaInterval(Store, IntervalHmapKey, IntervalQueueKey(T, Q), n)
         IN  /\ SetStore(r.store)
             /\ response' = IntervalResponse(r.reply)
             /\ Record(<<"interval", n, Q, T>>)
             /\ UNCHANGED <<now, rqVars, supplied, enqueued, recording, histVars>>

\* requeue, run to its end with no other caller in between: one timestamp,
\* one read of the registry of active types, one script per type read.  The
\* scripts of two types touch different keys, so the order of the loop does
\* not show in the result
RECURSIVE RequeueTypes(_, _, _)
RequeueTypes(s, types, ts) ==
    IF types = {}
    THEN s
    ELSE LET T == CHOOSE x \in types : TRUE
         IN  RequeueTypes(LuaRequeue(s, T, ts), types \ {T}, ts)

\* the jobs in flight that a requeue of the types Ts at time ts leaves in
\* flight: those whose visibility timeout has not passed
StillInFlight(Ts, ts) ==
    LET left == {k \in DOMAIN inFlight :
                    k[1] \notin Ts \/ inFlight[k] + JobExpireInterval > ts}
    IN  [k \in left |-> inFlight[k]]

\* a requeue that reads the registry of ready types
RequeueReadyTypes ==
    /\ rqPc = "idle"
    /\ SetStore(RequeueTypes(Store, readyTypes, now))
    /\ Record(<<"requeue">>)
    /\ inFlight' = StillInFlight(QueueTypes, now)
    /\ UNCHANGED <<now, response, rqVars, supplied, enqueued, recording,
                   lastDequeue, deliveries, finished>>

\* a requeue that hands the scripts the epoch and not the clock
RequeueAtEpoch ==
    /\ rqPc = "idle"
    /\ SetStore(RequeueTypes(Store, activeTypes, 0))
    /\ Record(<<"requeue">>)
    /\ inFlight' = StillInFlight(QueueTypes, now)
    /\ UNCHANGED <<now, response, rqVars, supplied, enqueued, recording,
                   lastDequeue, deliveries, finished>>

Requeue ==
    /\ rqPc = "idle"
    /\ SetStore(RequeueTypes(Store, activeTypes, now))
    /\ Record(<<"requeue">>)
    /\ inFlight' = StillInFlight(QueueTypes, now)
    /\ UNCHANGED <<now, response, rqVars, supplied, enqueued, recording,
                   lastDequeue, deliveries, finished>>

\* requeue as the driver runs it, step by step, among the other callers
RequeueStamp ==
    /\ rqPc = "idle"
    /\ rqTimestamp' = now
    /\ rqPc' = "stamped"
    /\ UNCHANGED <<storeVars, now, response, rqTypes, supplied, enqueued,
                   recording, call, histVars>>

RequeueSmembers ==
    /\ rqPc = "stamped"
    /\ rqTypes' = activeTypes
    /\ rqPc' = IF activeTypes = {} THEN "idle" ELSE "loop"
    /\ rqTimestamp' = IF activeTypes = {} THEN 0 ELSE rqTimestamp
    /\ UNCHANGED <<storeVars, now, response, supplied, enqueued,
                   recording, call, histVars>>

\* a driver that takes the type out of the registry itself once its script ran
RequeueScriptDropsType(T) ==
    /\ rqPc = "loop"
    /\ T \in rqTypes
    /\ SetStore([LuaRequeue(Store, T, rqTimestamp) EXCEPT
                    !.activeTypes = @ \ {T}])
    /\ rqTypes' = rqTypes \ {T}
    /\ rqPc' = IF rqTypes' = {} THEN "idle" ELSE "loop"
    /\ rqTimestamp' = IF rqTypes' = {} THEN 0 ELSE rqTimestamp
    /\ Record(<<"requeue", T>>)
    /\ inFlight' = StillInFlight({T}, rqTimestamp)
    /\ UNCHANGED <<now, response, supplied, enqueued, recording,
                   lastDequeue, deliveries, finished>>

RequeueScript(T) ==
    /\ rqPc = "loop"
    /\ T \in rqTypes
    /\ SetStore(LuaRequeue(Store, T, rqTimestamp))
    /\ rqTypes' = rqTypes \ {T}
    /\ rqPc' = IF rqTypes' = {} THEN "idle" ELSE "loop"
    /\ rqTimestamp' = IF rqTypes' = {} THEN 0 ELSE rqTimestamp
    /\ Record(<<"requeue", T>>)
    /\ inFlight' = StillInFlight({T}, rqTimestamp)
    /\ UNCHANGED <<now, response, supplied, enqueued, recording,
                   lastDequeue, deliveries, finished>>

\* metrics reads the store; the rate counts are not modelled
Metrics(T, Q) ==
    IF \/ (Q # None /\ ~IsValidIdentifier(Q))
       \/ (T # None /\ ~IsValidIdentifier(T))
    THEN BadArgument(<<"metrics", T, Q>>)
    ELSE IF T = None /\ Q # None
    THEN BadArgument(<<"metrics", T, Q>>)
    ELSE /\ response' =
              IF T = None
              THEN [op |-> "metrics", status |-> "success",
                    queue_types |-> activeTypes \cup readyTypes]
              ELSE IF Q = None
              THEN [op |-> "metrics", status |-> "success",
                    queue_ids |-> (DOMAIN ready[T])
                                     \cup {tok[1] : tok \in DOMAIN active[T]}]
              ELSE [op |-> "metrics", status |-> "success",
                    queue_length |-> Len(jobs[T][Q])]
         /\ Record(<<"metrics", T, Q>>)
         /\ UNCHANGED <<storeVars, now, rqVars, supplied, enqueued, recording,
                        histVars>>

\* the clock
Tick ==
    /\ now < MaxTicks * TickMs
    /\ now' = now + TickMs
    /\ UNCHANGED <<storeVars, response, rqVars, supplied, enqueued, recording,
                   call, histVars>>

(* --------------------------- specification ----------------------------- *)
InitStore ==
    /\ jobs = [T \in QueueTypes |-> [Q \in QueueIds |-> <<>>]]
    /\ payload = EmptyMap
    /\ interval = EmptyMap
    /\ ready = [T \in QueueTypes |-> EmptyMap]
    /\ active = [T \in QueueTypes |-> EmptyMap]
    /\ readyTypes = {}
    /\ activeTypes = {}
    /\ now = 0
    /\ response = [op |-> "init", status |-> "none"]
    /\ rqPc = "idle"
    /\ rqTimestamp = 0
    /\ rqTypes = {}
    /\ supplied = EmptyMap
    /\ enqueued = 0
    /\ call = <<"init">>
    /\ lastDequeue = EmptyMap
    /\ deliveries = EmptyMap
    /\ finished = {}
    /\ inFlight = EmptyMap

\* the calls one after another, with the last call, the deliveries, the
\* finished jobs and the jobs in flight recorded
Init == InitStore /\ recording = {"call", "deliveries", "finished", "inFlight"}

\* the same, with the dequeue times recorded too
InitHistory ==
    InitStore /\ recording = {"call", "deliveries", "finished", "inFlight",
                              "lastDequeue"}

\* the finished jobs recorded, no other history
InitDriver == InitStore /\ recording = {"finished"}

\* a job id is unique within (T, Q) among the jobs that are queued or in
\* flight (glossary: Job)
Fresh(J, Q, T) ==
    (T \in QueueTypes /\ Q \in QueueIds) =>
        /\ \A i \in 1..Len(jobs[T][Q]) : jobs[T][Q][i] # J
        /\ <<Q, J>> \notin DOMAIN active[T]

\* the jobs the clients submit: three tenants, one of them with two jobs
Jobs == {<<"j1", "q1", "sms">>, <<"j2", "q1", "sms">>,
         <<"j1", "q2", "sms">>, <<"j1", "q1", "email">>}

\* calls with valid arguments
EnqueueCalls ==
    {<<<<"h", "i">>, 1000, "j1", "q1", "sms">>,
     <<<<"y", "o", "u">>, 1000, "j2", "q1", "sms">>,
     <<<<"y", "o", "u">>, 2000, "j1", "q2", "sms">>,
     <<<<"h", "i">>, 2000, "j1", "q1", "email">>}
DequeueCalls == QueueTypes
FinishCalls == Jobs
IntervalCalls == {<<n, "q1", "sms">> : n \in Intervals}

\* for each argument, a call where it alone is invalid
BadEnqueueCalls ==
    {<<Unserializable, 1000, "j1", "q1", "sms">>,
     <<<<"h", "i">>, 50, "j1", "q1", "sms">>,
     <<<<"h", "i">>, 1000, "", "q1", "sms">>,
     <<<<"h", "i">>, 1000, "j1", "", "sms">>,
     <<<<"h", "i">>, 1000, "j1", "q1", "">>}
BadDequeueCalls == {""}
BadFinishCalls == {<<"", "q1", "sms">>, <<"j1", "", "sms">>, <<"j1", "q1", "">>}
BadIntervalCalls == {<<50, "q1", "sms">>, <<1000, "", "sms">>, <<1000, "q1", "">>}
MetricsCalls ==
    ((QueueTypes \cup {None}) \X (QueueIds \cup {None}))
    \cup {<<"", None>>, <<"sms", "">>, <<None, "">>}

\* the clients, the clock and requeue, one call after another
Next ==
    \/ Tick
    \/ \E c \in EnqueueCalls :
            Fresh(c[3], c[4], c[5]) /\ Enqueue(c[1], c[2], c[3], c[4], c[5])
    \/ \E T \in DequeueCalls : Dequeue(T)
    \/ \E c \in FinishCalls : Finish(c[1], c[2], c[3])
    \/ \E c \in IntervalCalls : Interval(c[1], c[2], c[3])
    \/ Requeue

Spec == Init /\ [][Next]_vars

\* the clients alone, with valid and invalid arguments, and metrics
NextCalls ==
    \/ \E c \in EnqueueCalls \cup BadEnqueueCalls :
            Fresh(c[3], c[4], c[5]) /\ Enqueue(c[1], c[2], c[3], c[4], c[5])
    \/ \E T \in DequeueCalls \cup BadDequeueCalls : Dequeue(T)
    \/ \E c \in FinishCalls \cup BadFinishCalls : Finish(c[1], c[2], c[3])
    \/ \E c \in IntervalCalls \cup BadIntervalCalls : Interval(c[1], c[2], c[3])
    \/ \E c \in MetricsCalls : Metrics(c[1], c[2])

SpecCalls == Init /\ [][NextCalls]_vars

\* the clients, the clock and the requeue driver, step by step
NextDriver ==
    \/ Tick
    \/ \E c \in EnqueueCalls :
            Fresh(c[3], c[4], c[5]) /\ Enqueue(c[1], c[2], c[3], c[4], c[5])
    \/ \E T \in DequeueCalls : Dequeue(T)
    \/ \E c \in FinishCalls : Finish(c[1], c[2], c[3])
    \/ \E c \in IntervalCalls : Interval(c[1], c[2], c[3])
    \/ RequeueStamp
    \/ RequeueSmembers
    \/ \E T \in QueueTypes : RequeueScript(T)

SpecDriver == InitDriver /\ [][NextDriver]_vars

SpecHistory == InitHistory /\ [][Next]_vars

\* no history recorded
InitLive == InitStore /\ recording = {}

\* the tenants of one type, the clock and requeue
NextLive ==
    \/ Tick
    \/ \E c \in {e \in EnqueueCalls : e[5] = "sms"} :
            Fresh(c[3], c[4], c[5]) /\ Enqueue(c[1], c[2], c[3], c[4], c[5])
    \/ Dequeue("sms")
    \/ \E c \in {f \in FinishCalls : f[3] = "sms"} : Finish(c[1], c[2], c[3])
    \/ Requeue

\* the clock keeps advancing and the consumers keep calling dequeue
SpecLive ==
    /\ InitLive
    /\ [][NextLive]_vars
    /\ WF_vars(Tick)
    /\ WF_vars(Dequeue("sms"))

(* ------------------------------ properties ----------------------------- *)
InList(seq, x) == \E i \in 1..Len(seq) : seq[i] = x
Min(a, b) == IF a <= b THEN a ELSE b
TokenActive(c) == <<c[2], c[1]>> \in DOMAIN active[c[3]]
JobKey(c) == <<c[3], c[2], c[1]>>

\* C1: a queue id is in the ready set of its type exactly when its job list
\* is not empty
ReadySetMatchesJobLists ==
    \A T \in QueueTypes, Q \in QueueIds :
        (Q \in DOMAIN ready[T]) <=> (jobs[T][Q] # <<>>)

\* a dequeue emptied the list of one tenant, which left the ready set while
\* its job is in flight, and another tenant of the type is still ready
ReadySetAfterListEmptied ==
    \E T \in QueueTypes, Q \in QueueIds, R \in QueueIds :
        /\ jobs[T][Q] = <<>>
        /\ Q \notin DOMAIN ready[T]
        /\ \E J \in JobIds : <<Q, J>> \in DOMAIN active[T]
        /\ R \in DOMAIN ready[T]
        /\ jobs[T][R] # <<>>

\* C2: between two successive successful dequeues of one (T, Q), at t1 < t2,
\* at least the interval of (T, Q) elapses; the interval is taken as the
\* lower of the binding at t1 and the binding at t2
DequeueSpacing ==
    [][\A T \in DequeueCalls :
         (Dequeue(T) /\ response'.status = "success") =>
            LET tq == <<T, response'.queue_id>>
            IN  (tq \in DOMAIN lastDequeue /\ lastDequeue[tq][1] < now) =>
                    now - lastDequeue[tq][1] >= Min(lastDequeue[tq][2], interval[tq])
       ]_vars

\* C3: a job whose token has expired is, after requeue, back in its job list
\* with its payload, out of the active set, its queue in the ready set; and a
\* job leaves its list only as the result of a successful dequeue, which
\* returns its id and the payload it was enqueued with
ExpiredJobRedelivered ==
    [][\A c \in Jobs :
         LET J == c[1]
             Q == c[2]
             T == c[3]
         IN  /\ (Requeue /\ TokenActive(c) /\ active[T][<<Q, J>>] <= now) =>
                    /\ InList(jobs'[T][Q], J)
                    /\ Q \in DOMAIN ready'[T]
                    /\ <<Q, J>> \notin DOMAIN active'[T]
                    /\ JobKey(c) \in DOMAIN payload'
                    /\ payload'[JobKey(c)] = payload[JobKey(c)]
             /\ (InList(jobs[T][Q], J) /\ ~InList(jobs'[T][Q], J)) =>
                    /\ call' = <<"dequeue", T>>
                    /\ response' = [op |-> "dequeue", status |-> "success",
                                    queue_id |-> Q, job_id |-> J,
                                    payload |-> supplied[JobKey(c)]]
       ]_vars

\* a dequeue has just returned, for the second time, a job that expired and
\* was requeued
JobDeliveredAgain ==
    /\ call[1] = "dequeue"
    /\ response.status = "success"
    /\ LET key == <<call[2], response.queue_id, response.job_id>>
       IN  /\ key \in DOMAIN deliveries
           /\ deliveries[key] = 2
           /\ now >= JobExpireInterval

\* C4: the payload a successful dequeue returns is the payload the job was
\* enqueued with
PayloadRoundTrip ==
    (call[1] = "dequeue" /\ response.status = "success") =>
        LET key == <<call[2], response.queue_id, response.job_id>>
        IN  /\ key \in DOMAIN supplied
            /\ response.payload = supplied[key]

\* a dequeue has just returned the longer payload while a job with the other
\* payload is live
PayloadReturnedAmongTwo ==
    /\ call[1] = "dequeue"
    /\ response.status = "success"
    /\ response.payload = <<"y", "o", "u">>
    /\ \E k \in DOMAIN supplied : supplied[k] = <<"h", "i">>

\* C5: a type is in the registry of ready types exactly when its ready set is
\* not empty, and in the registry of active types exactly when its active
\* set is not empty
TypeRegistriesMatch ==
    \A T \in QueueTypes :
        /\ (T \in readyTypes) <=> (DOMAIN ready[T] # {})
        /\ (T \in activeTypes) <=> (DOMAIN active[T] # {})

\* a type that was in both registries has left both: its only job was
\* dequeued and finished, while another type is still registered as ready
TypeLeftBothRegistries ==
    \E T \in QueueTypes, U \in QueueTypes :
        /\ T \notin readyTypes
        /\ T \notin activeTypes
        /\ \E k \in finished : k[1] = T
        /\ U \in readyTypes

\* C6: when finish returns success for (T, Q, J), the token Q:J is not in the
\* active set of T and the payload of the job is gone
FinishRemovesTokenAndPayload ==
    (call[1] = "finish" /\ response.status = "success") =>
        LET J == call[2]
            Q == call[3]
            T == call[4]
        IN  /\ <<Q, J>> \notin DOMAIN active[T]
            /\ <<T, Q, J>> \notin DOMAIN payload

\* a finish has just succeeded while another job of the type stays in flight
FinishSucceededBesideActive ==
    /\ call[1] = "finish"
    /\ response.status = "success"
    /\ DOMAIN active[call[4]] # {}

\* C7: finish of a job in the active set returns success, and the same finish
\* right after it returns failure and leaves the store as it is
SecondFinishFails ==
    [][\A c \in FinishCalls :
         /\ (TokenActive(c) /\ Finish(c[1], c[2], c[3])) =>
                response'.status = "success"
         /\ (/\ call = <<"finish", c[1], c[2], c[3]>>
             /\ response.status = "success"
             /\ Finish(c[1], c[2], c[3])) =>
                (response'.status = "failure" /\ StoreNext = Store)
       ]_vars

\* the finish of a job already finished has just failed
FinishedJobFinishedAgain ==
    /\ call[1] = "finish"
    /\ response.status = "failure"
    /\ <<call[4], call[3], call[2]>> \in finished

\* C8: a dequeue on T returns failure when no queue id of the ready set of T
\* has a score at or before the clock
DequeueFailsWhenNoneReady ==
    [][\A T \in DequeueCalls :
         (Dequeue(T) /\ \A Q \in DOMAIN ready[T] : ready[T][Q] > now) =>
            (response'.status = "failure" /\ StoreNext = Store)
       ]_vars

\* a dequeue has just failed on a type whose ready set is not empty: every
\* tenant in it is rate-limited
DequeueFailedRateLimited ==
    /\ call[1] = "dequeue"
    /\ response.status = "failure"
    /\ DOMAIN ready[call[2]] # {}
    /\ \A Q \in DOMAIN ready[call[2]] : ready[call[2]][Q] > now

\* C9: interval returns failure and changes nothing exactly when (T, Q) has
\* no job list and no interval binding; otherwise it binds the interval of
\* (T, Q) to the one given, changes nothing else, and returns success
IntervalOfUnknownTenantFails ==
    [][\A c \in IntervalCalls :
         LET n == c[1]
             Q == c[2]
             T == c[3]
         IN  Interval(n, Q, T) =>
                IF jobs[T][Q] = <<>> /\ <<T, Q>> \notin DOMAIN interval
                THEN response'.status = "failure" /\ StoreNext = Store
                ELSE /\ response'.status = "success"
                     /\ StoreNext = [Store EXCEPT
                                       !.interval = Put(interval, <<T, Q>>, n)]
       ]_vars

\* an interval call has just failed for a tenant never enqueued, while other
\* tenants have jobs
IntervalFailedForUnknownTenant ==
    /\ call[1] = "interval"
    /\ response.status = "failure"
    /\ <<call[4], call[3]>> \notin DOMAIN interval
    /\ DOMAIN interval # {}

\* C10: a call with an invalid argument (an invalid identifier, an interval
\* under the floor, a payload that cannot be serialized, a queue id without a
\* queue type) raises the bad-argument error and leaves the store as it is
InvalidCallChangesNothing ==
    [][(\/ \E c \in BadEnqueueCalls : Enqueue(c[1], c[2], c[3], c[4], c[5])
        \/ \E T \in BadDequeueCalls : Dequeue(T)
        \/ \E c \in BadFinishCalls : Finish(c[1], c[2], c[3])
        \/ \E c \in BadIntervalCalls : Interval(c[1], c[2], c[3])
        \/ \E c \in MetricsCalls :
              /\ \/ c[1] = None /\ c[2] # None
                 \/ c[1] \in InvalidIdentifiers
                 \/ c[2] \in InvalidIdentifiers
              /\ Metrics(c[1], c[2]))
       => (response'.status = "bad-argument" /\ StoreNext = Store)
     ]_vars

\* an enqueue with an interval under the floor has just been refused while
\* the store holds jobs
InvalidEnqueueRefused ==
    /\ call[1] = "enqueue"
    /\ call[3] \in InvalidIntervals
    /\ response.status = "bad-argument"
    /\ DOMAIN payload # {}

\* C11: the token Q:J is in the active set of T exactly when J was dequeued
\* from (T, Q) and has not since been finished or requeued
ActiveSetIsJobsInFlight ==
    \A c \in Jobs : TokenActive(c) <=> (JobKey(c) \in DOMAIN inFlight)

\* one job of a type was dequeued, its visibility timeout passed and a requeue
\* took it out of flight, while a job dequeued later stays in flight
RequeuedBesideInFlight ==
    \E c \in Jobs, d \in Jobs :
        /\ c[3] = d[3]
        /\ call = <<"requeue">>
        /\ JobKey(c) \in DOMAIN deliveries
        /\ deliveries[JobKey(c)] >= 1
        /\ ~TokenActive(c)
        /\ TokenActive(d)

\* C12: a payload entry T:Q:J exists exactly when J is in the job list of
\* (T, Q) or the token Q:J is in the active set of T
PayloadIffJobLive ==
    /\ DOMAIN payload \subseteq {JobKey(c) : c \in Jobs}
    /\ \A c \in Jobs :
          (JobKey(c) \in DOMAIN payload) <=>
              (InList(jobs[c[3]][c[2]], c[1]) \/ TokenActive(c))

\* the payload of a finished job is gone, while the payload of a job of the
\* same tenant that was dequeued after it is kept
PayloadGoneAfterFinish ==
    \E c \in Jobs, d \in Jobs :
        /\ c[2] = d[2] /\ c[3] = d[3]
        /\ JobKey(c) \in finished
        /\ JobKey(c) \notin DOMAIN payload
        /\ TokenActive(d)
        /\ JobKey(d) \in DOMAIN payload

\* C13: a dequeue of a tenant (T, Q) does not succeed while a job of (T, Q)
\* dequeued before is in the active set and not yet expired
DequeueWaitsForPriorJob ==
    [][\A T \in DequeueCalls :
         (Dequeue(T) /\ response'.status = "success") =>
            \A J \in JobIds :
                LET tok == <<response'.queue_id, J>>
                IN  tok \in DOMAIN active[T] => active[T][tok] <= now
       ]_vars

\* C13, amended: a dequeue of a tenant (T, Q) succeeds only when the score of
\* Q in the ready set is at or before the clock, whether or not an earlier
\* job of (T, Q) is in flight; it adds the token of the job it returns, with
\* expiry now + job_expire_interval, and leaves the earlier tokens in place
DequeueWaitsForScoreOnly ==
    [][\A T \in DequeueCalls :
         (Dequeue(T) /\ response'.status = "success") =>
            LET Q == response'.queue_id
                J == response'.job_id
            IN  /\ Q \in DOMAIN ready[T]
                /\ ready[T][Q] <= now
                /\ <<Q, J>> \notin DOMAIN active[T]
                /\ active' = [active EXCEPT
                                 ![T] = Put(@, <<Q, J>>, now + JobExpireInterval)]
       ]_vars

\* a dequeue has just returned a job of a tenant while the job of that tenant
\* dequeued before it is in flight and not yet expired
TwoJobsOfTenantInFlight ==
    /\ call[1] = "dequeue"
    /\ response.status = "success"
    /\ \E J \in JobIds :
          LET tok == <<response.queue_id, J>>
          IN  /\ J # response.job_id
              /\ tok \in DOMAIN active[call[2]]
              /\ active[call[2]][tok] > now
              /\ active[call[2]][tok] < active[call[2]][<<response.queue_id,
                                                          response.job_id>>]

\* C14: the score of Q in the ready set of T is at least the time of the last
\* dequeue of (T, Q) plus the interval of (T, Q), once (T, Q) was dequeued,
\* the interval taken as the lower of the binding read by that dequeue and
\* the current binding; before the first dequeue the score is the time of
\* the enqueue that inserted Q
ScoreAfterLastDequeue ==
    [][\A T \in QueueTypes, Q \in QueueIds :
         Q \in DOMAIN ready'[T] =>
            LET tq == <<T, Q>>
            IN  IF tq \in DOMAIN lastDequeue'
                THEN ready'[T][Q] >=
                        lastDequeue'[tq][1]
                            + Min(lastDequeue'[tq][2], interval'[tq])
                ELSE ready'[T][Q] =
                        IF Q \in DOMAIN ready[T] THEN ready[T][Q] ELSE now
       ]_vars

\* C15: a job whose finish returned success is not put back into its job
\* list by any later execution of the requeue script, also when the finish
\* falls between the driver's timestamp or registry read and the script of
\* the type; it is in no list and in no active set, so no dequeue returns it
FinishedJobStaysOut ==
    \A c \in Jobs :
        JobKey(c) \in finished =>
            /\ ~InList(jobs[c[3]][c[2]], c[1])
            /\ ~TokenActive(c)

\* the driver has stamped its time, late enough for a job to have expired,
\* and has read the registry with a type in it; a job of the type was
\* finished since, which emptied the active set of the type, and the script
\* of the type is still to run on the stale registry
FinishedWhileRequeuePending ==
    \E c \in Jobs :
        /\ rqPc = "loop"
        /\ c[3] \in rqTypes
        /\ c[3] \notin activeTypes
        /\ rqTimestamp >= JobExpireInterval
        /\ JobKey(c) \in finished

\* C16: an accepted enqueue appends its job at the tail of the list of its
\* (T, Q); a successful dequeue returns the head of the list of the tenant it
\* serves and removes it; and no operation but enqueue, dequeue and requeue
\* changes a list.  So, with no requeue of the tenant in between, the jobs
\* of a tenant are returned in the order they were submitted
FifoWithinTenant ==
    [][/\ \A c \in EnqueueCalls :
            Enqueue(c[1], c[2], c[3], c[4], c[5]) =>
                jobs' = [jobs EXCEPT ![c[5]][c[4]] = Append(@, c[3])]
       /\ \A T \in DequeueCalls :
            (Dequeue(T) /\ response'.status = "success") =>
                /\ response'.queue_id \in QueueIds
                /\ jobs[T][response'.queue_id] # <<>>
                /\ response'.job_id = Head(jobs[T][response'.queue_id])
                /\ jobs' = [jobs EXCEPT ![T][response'.queue_id] = Tail(@)]
       /\ (jobs' # jobs) => (call'[1] \in {"enqueue", "dequeue", "requeue"})
      ]_vars

\* of two jobs of one tenant, the one with the later id was submitted first
\* and a dequeue has just returned it, the other still waiting; neither was
\* requeued
FirstSubmittedReturnedFirst ==
    /\ call = <<"dequeue", "sms">>
    /\ response.status = "success"
    /\ response.queue_id = "q1"
    /\ response.job_id = "j2"
    /\ jobs["sms"]["q1"] = <<"j1">>
    /\ deliveries[<<"sms", "q1", "j1">>] = 0
    /\ deliveries[<<"sms", "q1", "j2">>] = 1

\* C17: a successful dequeue of type T returns the head job of a tenant whose
\* score in the ready set of T is at or before the clock and is the lowest
\* score of the ready set
DequeueServesLowestScore ==
    [][\A T \in DequeueCalls :
         (Dequeue(T) /\ response'.status = "success") =>
            LET Q == response'.queue_id
            IN  /\ Q \in DOMAIN ready[T]
                /\ ready[T][Q] <= now
                /\ \A R \in DOMAIN ready[T] : ready[T][Q] <= ready[T][R]
                /\ response'.job_id = Head(jobs[T][Q])
       ]_vars

\* a dequeue has just served q2 while q1, whose job was enqueued and
\* delivered before and then requeued, is in the ready set and eligible:
\* q1 comes first by name, so q2 was served for its lower score
LaterTenantServedFirst ==
    /\ call = <<"dequeue", "sms">>
    /\ response.status = "success"
    /\ response.queue_id = "q2"
    /\ "q1" \in DOMAIN ready["sms"]
    /\ ready["sms"]["q1"] <= now
    /\ \E k \in DOMAIN deliveries :
          /\ k[1] = "sms" /\ k[2] = "q1" /\ deliveries[k] >= 1
          /\ InList(jobs["sms"]["q1"], k[3])

\* C18: a requeue puts every expired job ahead of the jobs that were waiting
\* in the list of its tenant, and a dequeue returns a job never delivered
\* before only when no requeued job of the tenant is in the list
RequeuedJobServedFirst ==
    [][/\ \A c \in Jobs :
            (Requeue /\ TokenActive(c) /\ active[c[3]][<<c[2], c[1]>>] <= now) =>
                LET before == jobs[c[3]][c[2]]
                    after == jobs'[c[3]][c[2]]
                IN  /\ InList(after, c[1])
                    /\ \A i \in 1..Len(before) :
                          Rank(after, c[1]) < Rank(after, before[i])
       /\ \A T \in DequeueCalls :
            (Dequeue(T) /\ response'.status = "success") =>
                LET Q == response'.queue_id
                    key == <<T, Q, response'.job_id>>
                IN  deliveries[key] = 0 =>
                        \A i \in 1..Len(jobs[T][Q]) :
                            deliveries[<<T, Q, jobs[T][Q][i]>>] = 0
      ]_vars

\* a dequeue has just returned a requeued job for the second time, while a
\* job of the same tenant that was never delivered is waiting
RequeuedJobReturnedBeforeWaiting ==
    /\ call[1] = "dequeue"
    /\ response.status = "success"
    /\ LET T == call[2]
           Q == response.queue_id
       IN  /\ deliveries[<<T, Q, response.job_id>>] = 2
           /\ jobs[T][Q] # <<>>
           /\ deliveries[<<T, Q, Head(jobs[T][Q])>>] = 0

\* the last time the clock of the model reaches
Horizon == MaxTicks * TickMs

\* C19: with the clock advancing and dequeue called again and again on a
\* type, every tenant that is in the ready set of the type with a score the
\* clock reaches is eventually served by a successful dequeue
ReadyTenantEventuallyServed ==
    \A Q \in QueueIds :
        (Q \in DOMAIN ready["sms"] /\ ready["sms"][Q] <= Horizon)
            ~> (/\ response.op = "dequeue"
                /\ response.status = "success"
                /\ response.queue_id = Q)

\* a dequeue has just served q2 at the time q1, of the same score, was served
TenantOfEqualScoreServed ==
    /\ response.op = "dequeue"
    /\ response.status = "success"
    /\ response.queue_id = "q2"
    /\ <<"q1", "j1">> \in DOMAIN active["sms"]
    /\ <<"q2", "j1">> \in DOMAIN active["sms"]
    /\ active["sms"][<<"q1", "j1">>] = now + JobExpireInterval
    /\ active["sms"][<<"q2", "j1">>] = now + JobExpireInterval

\* C20: with the requeue driver run step by step among the other callers, in
\* every state, the driver's intermediate states included: a queue id is in
\* the ready set exactly when its list is not empty, a type is in a registry
\* exactly when its set is not empty, and every job enqueued and not finished
\* is either in its job list, once, or in the active set, never both
DriverKeepsInvariants ==
    /\ \A T \in QueueTypes, Q \in QueueIds :
          (Q \in DOMAIN ready[T]) <=> (jobs[T][Q] # <<>>)
    /\ \A T \in QueueTypes :
          /\ (T \in readyTypes) <=> (DOMAIN ready[T] # {})
          /\ (T \in activeTypes) <=> (DOMAIN active[T] # {})
    /\ \A c \in Jobs :
          LET list == jobs[c[3]][c[2]]
              places == {i \in 1..Len(list) : list[i] = c[1]}
          IN  IF JobKey(c) \in DOMAIN supplied
              THEN IF TokenActive(c)
                   THEN places = {}
                   ELSE Cardinality(places) = 1
              ELSE places = {} /\ ~TokenActive(c)

\* the driver is between its registry read and the script of a type, with a
\* timestamp the clock has left behind: a job of that type has expired since
\* the stamp, and the script will run with the stale time
DriverSnapshotStale ==
    \E T \in QueueTypes :
        /\ rqPc = "loop"
        /\ T \in rqTypes
        /\ rqTimestamp < now
        /\ \E tok \in DOMAIN active[T] :
              active[T][tok] > rqTimestamp /\ active[T][tok] <= now

====
